---- MODULE Spec2Model ----
(***************************************************************************)
(* A model of app.py: a Streamlit script that checks the API credential,   *)
(* renders a form, and on submit calls get_llm_response(user_input,        *)
(* expert_type), which resolves a system instruction, constructs the       *)
(* client, sends [system, user] to chat.invoke and returns the reply or a  *)
(* fixed failure string.                                                   *)
(*                                                                         *)
(* Texts typed by the user are sequences of characters, so that strip()    *)
(* is computed.  Fixed strings of the program (instructions, sentinels,    *)
(* labels) are named constants; the Japanese literals are quoted in the    *)
(* comments.  Calls into libraries that may raise (httpx.Client,           *)
(* ChatOpenAI, chat.invoke, response.content, st.error, print) have        *)
(* their outcome chosen nondeterministically.                              *)
(***************************************************************************)
EXTENDS Naturals, Sequences, FiniteSets

VARIABLES
    OPENAI_API_KEY,          \* app.py:8, os.getenv("OPENAI_API_KEY")
    caller,                  \* "script" (line 109) or "direct" (a call of the function)
    pc,                      \* where the request is
    selected_expert,         \* app.py:93, st.radio
    user_query,              \* app.py:100, st.text_area
    page,                    \* the elements rendered in the browser by this run
    console,                 \* the lines print() wrote for this request
    user_input,              \* parameter of get_llm_response
    expert_type,             \* parameter of get_llm_response
    system_message_content,  \* app.py:34-40
    messages,                \* the list handed to chat.invoke (app.py:61-68)
    pressed,                 \* app.py:103, what st.button returned in this run
    response,                \* what chat.invoke returned
    llm_answer,              \* the value get_llm_response returned
    raised,                  \* an exception left get_llm_response
    failedAt,                \* the step that raised
    nCalls,                  \* calls of get_llm_response in this run
    nInvokes                 \* calls of chat.invoke in this request

vars == <<OPENAI_API_KEY, caller, pc, selected_expert, user_query, page, console,
          user_input, expert_type, system_message_content, messages, pressed,
          response, llm_answer,
          raised, failedAt, nCalls, nInvokes>>

(***************************************************************************)
(* Bounds and input sets                                                   *)
(***************************************************************************)
MaxLen == 2

Whitespace == {" ", "\t"}
Chars == Whitespace \cup {"a"}

RECURSIVE SeqsUpTo(_)
SeqsUpTo(n) ==
    IF n = 0 THEN {<<>>}
    ELSE LET shorter == SeqsUpTo(n - 1)
         IN  shorter \cup {Append(s, c) : s \in {t \in shorter : Len(t) = n - 1}, c \in Chars}

Texts == SeqsUpTo(MaxLen)

\* os.getenv returns None when the variable is unset
NoneKey == "None"
Keys == {NoneKey, "", "sk-key"}

\* "心理カウンセラー", "健康アドバイザー"
Counselor == "counselor"
HealthAdvisor == "health-advisor"
expert_options == <<Counselor, HealthAdvisor>>
ExpertSet == {expert_options[i] : i \in 1..Len(expert_options)}
\* tags a direct caller may pass: the two known ones, the empty string, an unknown one
Tags == ExpertSet \cup {"", "lawyer"}

\* the three instruction literals of app.py:35, 37, 40
CounselorInstruction == "instruction:counselor"
HealthAdvisorInstruction == "instruction:health-advisor"
AssistantInstruction == "instruction:assistant"

\* the two returned failure literals of app.py:58, 74
InitFailedSentinel == "sentinel:init-failed"
InvokeFailedSentinel == "sentinel:invoke-failed"

\* str(e) of the exception a library raised
Errors == {"e1", "e2"}
\* response.content of a successful call
Replies == {"", "T", InitFailedSentinel, InvokeFailedSentinel}
\* how the reporting in an except block ends
ReportOutcomes == {"ok", "st_error_raises", "print_raises"}

NoValue == "<none>"
NoText == <<>>

(***************************************************************************)
(* Pure parts of the program                                               *)
(***************************************************************************)
RECURSIVE LStrip(_)
LStrip(s) ==
    IF s = <<>> THEN <<>>
    ELSE IF Head(s) \in Whitespace THEN LStrip(Tail(s)) ELSE s

RECURSIVE RStrip(_)
RStrip(s) ==
    IF s = <<>> THEN <<>>
    ELSE IF s[Len(s)] \in Whitespace THEN RStrip(SubSeq(s, 1, Len(s) - 1)) ELSE s

\* str.strip()
Strip(s) == RStrip(LStrip(s))

\* Python truthiness of a str
Truthy(s) == s # <<>>

IsBlankNoStrip(text) == ~Truthy(text)
\* app.py:104, not user_query.strip()
IsBlank(text) == ~Truthy(Strip(text))

CredentialMissingNoneOnly(key) == key = NoneKey
\* app.py:16, not OPENAI_API_KEY
CredentialMissing(key) == key = NoneKey \/ key = ""

ResolveInstructionFirstWins(tag) ==
    IF tag = Counselor THEN CounselorInstruction
    ELSE IF tag = HealthAdvisor THEN CounselorInstruction
    ELSE AssistantInstruction
\* app.py:34-40
ResolveInstruction(tag) ==
    IF tag = Counselor THEN CounselorInstruction
    ELSE IF tag = HealthAdvisor THEN HealthAdvisorInstruction
    ELSE AssistantInstruction

SystemMessage(content) == [role |-> "system", content |-> content]
HumanMessage(content) == [role |-> "user", content |-> content]

BuildMessagesStripped(instruction, text) ==
    <<SystemMessage(instruction), HumanMessage(Strip(text))>>
\* app.py:61-64
BuildMessages(instruction, text) ==
    <<SystemMessage(instruction), HumanMessage(text)>>

ResponseTextOrSentinel(r) ==
    IF r.content = "" THEN InvokeFailedSentinel ELSE r.content
\* app.py:69, return response.content
ResponseText(r) == r.content

(***************************************************************************)
(* Page elements                                                           *)
(***************************************************************************)
El(kind, text, detail) == [kind |-> kind, text |-> text, detail |-> detail]

InputKinds == {"radio", "text_area", "button"}

\* app.py:17
KeyMissingPage == <<El("error", "api-key-missing", "")>>

\* app.py:78-103: title, markdown, radio, text_area, button
FormPage(expert) ==
    <<El("title", "title", ""), El("markdown", "overview", ""),
      El("radio", "choose-expert", ""), El("text_area", expert, ""),
      El("button", "generate", "")>>

\* app.py:105
WarningEl == El("warning", "enter-text", "")

\* app.py:55, 71: st.error(f"...: {e}")
ErrorEl(phase, e) == El("error", phase, e)

\* app.py:57, 73: print(f"...: {e}")
LogLine(phase, e) == [text |-> phase, detail |-> e]

\* app.py:110-111
AnswerEls(expert, answer) ==
    <<El("subheader", expert, ""), El("write", answer, "")>>

\* an exception that leaves the script is shown by the framework
ExceptionEl(what) == El("exception", "uncaught", what)

HasInputWidget(p) == \E i \in 1..Len(p) : p[i].kind \in InputKinds

\* app.py:107, shown while the with-block runs
SpinnerEl(expert) == El("spinner", expert, "")

(***************************************************************************)
(* The except blocks of get_llm_response (app.py:54-58 and 70-74):         *)
(* st.error(...), then print(...), then return the sentinel.  An exception *)
(* raised by st.error or by print inside the block is not caught by it.    *)
(***************************************************************************)
Reported(p, phase, e, rep) ==
    IF rep = "st_error_raises" THEN p ELSE Append(p, ErrorEl(phase, e))

Logged(c, phase, e, rep) ==
    IF rep = "ok" THEN Append(c, LogLine(phase, e)) ELSE c

\* app.py:109-111: the caller of get_llm_response renders what it returned
AfterCall(who, p, expert, answer, didRaise, what) ==
    IF who = "direct" THEN p
    ELSE IF didRaise THEN Append(p, ExceptionEl(what))
    ELSE p \o AnswerEls(expert, answer)

ExceptBlock(who, base, expert, phase, sentinel, e, rep) ==
    /\ console' = Logged(<<>>, phase, e, rep)
    /\ raised' = (rep # "ok")
    /\ llm_answer' = IF rep = "ok" THEN sentinel ELSE NoValue
    /\ page' = AfterCall(who, Reported(base, phase, e, rep), expert,
                         sentinel, rep # "ok", rep)

(***************************************************************************)
(* get_llm_response, app.py:22-74, up to the point where it blocks in      *)
(* chat.invoke or returns from the first except block.                     *)
(***************************************************************************)
\* app.py:43-58: httpx.Client(...) or ChatOpenAI(...) raises
EnterInitFails(who, base, expert, text, tag) ==
    \E at \in {"httpx_client", "chat_model"}, e \in Errors, rep \in ReportOutcomes :
        /\ user_input' = text
        /\ expert_type' = tag
        /\ system_message_content' = ResolveInstruction(tag)
        /\ failedAt' = at
        /\ messages' = <<>>
        /\ response' = NoValue
        /\ nCalls' = 1
        /\ nInvokes' = 0
        /\ pc' = "init_failed"
        /\ ExceptBlock(who, base, expert, "init", InitFailedSentinel, e, rep)

\* app.py:43-68: the client is constructed, the messages are built, chat.invoke is called
EnterInvokes(who, base, expert, text, tag) ==
    /\ user_input' = text
    /\ expert_type' = tag
    /\ system_message_content' = ResolveInstruction(tag)
    /\ messages' = BuildMessages(ResolveInstruction(tag), text)
    /\ failedAt' = "none"
    /\ response' = NoValue
    /\ llm_answer' = NoValue
    /\ raised' = FALSE
    /\ nCalls' = 1
    /\ nInvokes' = 1
    /\ pc' = "awaiting"
    /\ console' = <<>>
    /\ page' = IF who = "direct" THEN base ELSE Append(base, SpinnerEl(expert))

\* the page under the spinner, once the with-block is left
Base == IF caller = "direct" THEN <<>> ELSE FormPage(selected_expert)

\* app.py:68-69: chat.invoke returns and response.content is returned
InvokeReturns ==
    /\ pc = "awaiting"
    /\ \E T \in Replies :
        /\ response' = [content |-> T]
        /\ llm_answer' = ResponseText([content |-> T])
        /\ page' = AfterCall(caller, Base, selected_expert,
                             ResponseText([content |-> T]), FALSE, "")
    /\ pc' = "done"
    /\ UNCHANGED <<OPENAI_API_KEY, caller, selected_expert, user_query, console,
                   user_input, expert_type, system_message_content, messages,
                   pressed, raised, failedAt, nCalls, nInvokes>>

InvokeRaisesRetry ==
    /\ pc = "awaiting"
    /\ nInvokes < 2
    /\ nInvokes' = nInvokes + 1
    /\ UNCHANGED <<OPENAI_API_KEY, caller, pc, selected_expert, user_query, page,
                   console, user_input, expert_type, system_message_content,
                   messages, pressed, response, llm_answer, raised, failedAt, nCalls>>
\* app.py:68-74: chat.invoke, or reading response.content, raises
InvokeRaises ==
    /\ pc = "awaiting"
    /\ \E at \in {"invoke", "content"}, e \in Errors, rep \in ReportOutcomes :
        /\ failedAt' = at
        /\ ExceptBlock(caller, Base, selected_expert, "invoke",
                       InvokeFailedSentinel, e, rep)
    /\ pc' = "invoke_failed"
    /\ UNCHANGED <<OPENAI_API_KEY, caller, selected_expert, user_query,
                   user_input, expert_type, system_message_content, messages,
                   pressed, response, nCalls, nInvokes>>

(***************************************************************************)
(* The script, app.py:5-115.  Streamlit runs it from the top on page load  *)
(* and on every interaction with a widget the previous run rendered.       *)
(***************************************************************************)
\* what the run reads from the widgets: the defaults unless the page has widgets
Inputs ==
    IF HasInputWidget(page)
    THEN ExpertSet \X Texts \X BOOLEAN
    ELSE {<<expert_options[1], NoText, FALSE>>}

\* a run that never calls get_llm_response
NoCall ==
    /\ user_input' = NoText
    /\ expert_type' = NoValue
    /\ system_message_content' = NoValue
    /\ messages' = <<>>
    /\ response' = NoValue
    /\ llm_answer' = NoValue
    /\ raised' = FALSE
    /\ failedAt' = "none"
    /\ console' = <<>>
    /\ nCalls' = 0
    /\ nInvokes' = 0

Widgets(in) ==
    /\ selected_expert' = in[1]
    /\ user_query' = in[2]
    /\ pressed' = in[3]

\* app.py:16-18: st.error and st.stop()
RunHalts ==
    /\ caller = "script"
    /\ pc # "awaiting"
    /\ CredentialMissing(OPENAI_API_KEY)
    /\ page' = KeyMissingPage
    /\ pc' = "halted"
    /\ pressed' = FALSE
    /\ NoCall
    /\ UNCHANGED <<OPENAI_API_KEY, caller, selected_expert, user_query>>

\* app.py:78-103, 112-115: the form is rendered, the button was not pressed
RunShows ==
    /\ caller = "script"
    /\ pc # "awaiting"
    /\ ~CredentialMissing(OPENAI_API_KEY)
    /\ \E in \in Inputs :
        /\ ~in[3]
        /\ Widgets(in)
        /\ page' = FormPage(in[1])
    /\ pc' = "shown"
    /\ NoCall
    /\ UNCHANGED <<OPENAI_API_KEY, caller>>

\* app.py:103-105: pressed with blank text
RunWarns ==
    /\ caller = "script"
    /\ pc # "awaiting"
    /\ ~CredentialMissing(OPENAI_API_KEY)
    /\ \E in \in Inputs :
        /\ in[3]
        /\ IsBlank(in[2])
        /\ Widgets(in)
        /\ page' = Append(FormPage(in[1]), WarningEl)
    /\ pc' = "warned"
    /\ NoCall
    /\ UNCHANGED <<OPENAI_API_KEY, caller>>

\* app.py:103-111 with the construction of the client raising
RunInitFails ==
    /\ caller = "script"
    /\ pc # "awaiting"
    /\ ~CredentialMissing(OPENAI_API_KEY)
    /\ \E in \in Inputs :
        /\ in[3]
        /\ ~IsBlank(in[2])
        /\ Widgets(in)
        /\ EnterInitFails("script", FormPage(in[1]), in[1], in[2], in[1])
    /\ UNCHANGED <<OPENAI_API_KEY, caller>>

\* app.py:103-109 up to chat.invoke
RunInvokes ==
    /\ caller = "script"
    /\ pc # "awaiting"
    /\ ~CredentialMissing(OPENAI_API_KEY)
    /\ \E in \in Inputs :
        /\ in[3]
        /\ ~IsBlank(in[2])
        /\ Widgets(in)
        /\ EnterInvokes("script", FormPage(in[1]), in[1], in[2], in[1])
    /\ UNCHANGED <<OPENAI_API_KEY, caller>>

(***************************************************************************)
(* get_llm_response called on its own, with any text and any tag.          *)
(***************************************************************************)
CallInitFails ==
    /\ caller = "direct"
    /\ pc # "awaiting"
    /\ \E text \in Texts, tag \in Tags :
        EnterInitFails("direct", <<>>, selected_expert, text, tag)
    /\ UNCHANGED <<OPENAI_API_KEY, caller, selected_expert, user_query, pressed>>

CallInvokes ==
    /\ caller = "direct"
    /\ pc # "awaiting"
    /\ \E text \in Texts, tag \in Tags :
        EnterInvokes("direct", <<>>, selected_expert, text, tag)
    /\ UNCHANGED <<OPENAI_API_KEY, caller, selected_expert, user_query, pressed>>

(***************************************************************************)
(* Specifications                                                          *)
(***************************************************************************)
Fresh ==
    /\ pc = "idle"
    /\ selected_expert = expert_options[1]
    /\ user_query = NoText
    /\ pressed = FALSE
    /\ page = <<>>
    /\ console = <<>>
    /\ user_input = NoText
    /\ expert_type = NoValue
    /\ system_message_content = NoValue
    /\ messages = <<>>
    /\ response = NoValue
    /\ llm_answer = NoValue
    /\ raised = FALSE
    /\ failedAt = "none"
    /\ nCalls = 0
    /\ nInvokes = 0

\* the app as served by Streamlit
Init ==
    /\ OPENAI_API_KEY \in Keys
    /\ caller = "script"
    /\ Fresh

Next ==
    \/ RunHalts
    \/ RunShows
    \/ RunWarns
    \/ RunInitFails
    \/ RunInvokes
    \/ InvokeReturns
    \/ InvokeRaises

Spec == Init /\ [][Next]_vars

\* get_llm_response as a function of its two arguments
InitCall ==
    /\ OPENAI_API_KEY = "sk-key"
    /\ caller = "direct"
    /\ Fresh

NextCall ==
    \/ CallInitFails
    \/ CallInvokes
    \/ InvokeReturns
    \/ InvokeRaises

SpecCall == InitCall /\ [][NextCall]_vars

(***************************************************************************)
(* Properties                                                              *)
(***************************************************************************)
AllWhitespace(s) == \A i \in 1..Len(s) : s[i] \in Whitespace

Returned == pc \in {"done", "init_failed", "invoke_failed"}
Failed == pc \in {"init_failed", "invoke_failed"}

\* C1: whenever get_llm_response reaches chat.invoke with a non-empty text, the
\* list it passes has exactly two entries, [system, user]; the system entry holds
\* the instruction resolved for the tag and the user entry holds the text exactly
\* as the function received it.
C1_TwoMessagesVerbatim ==
    (nInvokes >= 1 /\ user_input # NoText) =>
        /\ Len(messages) = 2
        /\ DOMAIN messages[1] = {"role", "content"}
        /\ DOMAIN messages[2] = {"role", "content"}
        /\ messages[1].role = "system"
        /\ messages[1].content = system_message_content
        /\ messages[2].role = "user"
        /\ messages[2].content = user_input

\* a text with leading and trailing whitespace is on its way to the model untouched
C1_Witness ==
    /\ pc = "awaiting"
    /\ Len(user_input) >= 2
    /\ user_input[1] \in Whitespace
    /\ messages[2].content = user_input

\* C2: for every tag the resolved instruction is the one of the reference mapping:
\* the counselor tag gives the counselor instruction, the health-advisor tag the
\* health-advisor instruction, every other value the assistant instruction; no call
\* fails in the resolution.
C2_ResolutionTotal ==
    nCalls >= 1 =>
        /\ expert_type = Counselor => system_message_content = CounselorInstruction
        /\ expert_type = HealthAdvisor => system_message_content = HealthAdvisorInstruction
        /\ expert_type \notin {Counselor, HealthAdvisor} =>
               system_message_content = AssistantInstruction
        /\ failedAt # "resolve"

\* an unknown tag fell back to the assistant instruction
C2_Witness ==
    /\ nCalls = 1
    /\ expert_type = "lawyer"
    /\ system_message_content = AssistantInstruction

\* C3: when the client was constructed and chat.invoke returned a response with
\* content T, get_llm_response returns exactly T, also for the empty T and for a T
\* equal to a sentinel.
C3_ReplyVerbatim ==
    pc = "done" => /\ llm_answer = response.content
                   /\ ~raised

\* the model replied with the empty text and that is what came back
C3_Witness ==
    /\ pc = "done"
    /\ response.content = ""
    /\ llm_answer = ""

\* C4: when the client was constructed and the remote call raised, get_llm_response
\* returns the invocation-failure sentinel and does not raise.
C4_InvokeFailureAbsorbed ==
    (pc = "invoke_failed" /\ failedAt = "invoke") =>
        /\ llm_answer = InvokeFailedSentinel
        /\ ~raised

\* C5: when the construction of the HTTP client or of the chat model raised,
\* get_llm_response returns the initialization-failure sentinel, which differs
\* from the invocation-failure sentinel.
C5_InitFailureSentinel ==
    /\ InitFailedSentinel # InvokeFailedSentinel
    /\ pc = "init_failed" => /\ failedAt \in {"httpx_client", "chat_model"}
                             /\ llm_answer = InitFailedSentinel

\* C6: a press of the button with empty or whitespace-only text never calls
\* get_llm_response nor the model and shows the warning; get_llm_response is
\* called only with text holding a character that is not whitespace.
C6_BlankNeverDispatched ==
    /\ (pressed /\ AllWhitespace(user_query)) =>
           /\ nCalls = 0
           /\ nInvokes = 0
           /\ page = Append(FormPage(selected_expert), WarningEl)
    /\ nCalls >= 1 => \E i \in 1..Len(user_input) : user_input[i] \notin Whitespace

\* the button was pressed over a text of whitespace only
C6_Witness ==
    /\ pressed
    /\ Len(user_query) >= 1
    /\ AllWhitespace(user_query)
    /\ pc = "warned"

\* C7: with the credential unset or empty no run of the script renders an input
\* widget, calls get_llm_response or calls the model.
C7_NoKeyNoService ==
    OPENAI_API_KEY \in {NoneKey, ""} =>
        /\ ~HasInputWidget(page)
        /\ nCalls = 0
        /\ nInvokes = 0
        /\ pc \in {"idle", "halted"}

\* a run stopped on an empty credential
C7_Witness ==
    /\ OPENAI_API_KEY = ""
    /\ pc = "halted"
    /\ page = KeyMissingPage

\* C8: whatever step of get_llm_response fails, the call returns a string and
\* never raises, and on failure the string is one of the two sentinels.
C8_NothingEscapes ==
    Returned => /\ ~raised
                /\ llm_answer # NoValue
                /\ Failed => llm_answer \in {InitFailedSentinel, InvokeFailedSentinel}

C9_Step ==
    /\ nCalls' <= 1
    /\ nInvokes' <= 1
    /\ pc' \in {"awaiting", "done", "invoke_failed"} => nInvokes' = 1
    /\ pc' = "init_failed" => nInvokes' = 0
    /\ pc' \in {"idle", "halted", "shown", "warned"} => nCalls' = 0 /\ nInvokes' = 0
    /\ pc = "awaiting" => /\ pc' \in {"done", "invoke_failed"}
                          /\ nInvokes' = nInvokes
                          /\ nCalls' = nCalls
    /\ pc' \in {"done", "invoke_failed"} => pc = "awaiting"

\* C9: a call of get_llm_response invokes the model at most once: once when the
\* client was constructed, never when its construction failed; a failed attempt
\* is not retried; a press of the button calls get_llm_response at most once; the
\* request goes from idle to awaiting the response to done or failed.
C9_AtMostOneInvocation == [][C9_Step]_vars

\* a request failed in the invocation after its single call of the model
C9_Witness ==
    /\ pc = "invoke_failed"
    /\ nCalls = 1
    /\ nInvokes = 1

\* the sentinel a failed phase returns
SentinelOf(p) == IF p = "init_failed" THEN InitFailedSentinel ELSE InvokeFailedSentinel

\* C10: after a failed dispatch the page holds the form and the phase's sentinel
\* and nothing else, so that it is the same for every underlying error.
C10_PageHidesDetail ==
    Failed => page = FormPage(selected_expert)
                       \o AnswerEls(selected_expert, SentinelOf(pc))

(***************************************************************************)
(* What the except blocks do guarantee                                     *)
(***************************************************************************)
\* when st.error and print complete, the failed phase's sentinel is returned
SentinelWhenReported ==
    (Failed /\ ~raised) => llm_answer = SentinelOf(pc)

\* an exception leaves get_llm_response only out of an except block
RaisedOnlyInReporting ==
    raised => /\ Failed
              /\ Len(console) = 0

\* st.error completed in a failed request: the page shows str(e)
DetailOnPage ==
    (Failed /\ ~raised) =>
        \E i \in 1..Len(page) : page[i].kind = "error" /\ page[i].detail \in Errors

====
